---- MODULE Spec2Model ----
(***************************************************************************)
(* Document ingestion and analysis pipeline of the ski-racer backend:      *)
(* DocumentService (backend/app/services/document_service.py) over the     *)
(* DocumentRepository, the local upload directory, the S3 bucket and the   *)
(* Bedrock analysis adapter.                                               *)
(*                                                                         *)
(* Strings that the code inspects character by character (file names,      *)
(* extensions, MIME types) are sequences of one-character strings, so that *)
(* rsplit('.'), lower() and startswith() are computed, not assumed.        *)
(* File contents are abstracted to their length and a content tag.         *)
(***************************************************************************)
EXTENDS Integers, Sequences, FiniteSets, TLC

VARIABLES
    uploads_bucket, \* DocumentService.uploads_bucket: "" (local disk) or a bucket name
    bedrock_service,\* DocumentService.bedrock_service: the adapter, or NULL when
                    \* its construction failed (read from the environment, as
                    \* the bucket is, by every request's DocumentService)
    racers,         \* the racers table: the ids of the racer profiles
    docs,           \* the documents table: id -> row
    disk,           \* files under LOCAL_UPLOAD_DIR: path -> content
    s3,             \* objects of the uploads bucket: key -> content
    nextId,         \* number of document ids generated so far (generate_uuid)
    nextKey,        \* number of storage names generated so far (uuid.uuid4)
    clock,          \* the database server's now()
    deleted,        \* ids for which delete_document has returned normally
    last,           \* the request being answered and how its call ended
    procs           \* requests served at the same time: where each call stands

vars == <<uploads_bucket, bedrock_service, racers, docs, disk, s3, nextId, nextKey,
          clock, deleted, last, procs>>

----------------------------------------------------------------------------
(* Bounds of the model *)

MaxUploads == 2     \* uploads that get as far as a storage name (uuid4)
MaxProcs   == 2     \* requests served at the same time

----------------------------------------------------------------------------
(* Constants of document_service.py *)

MAX_FILE_SIZE == 50 * 1024 * 1024

EXT_MP4  == <<".", "m", "p", "4">>
EXT_MOV  == <<".", "m", "o", "v">>
EXT_JPG  == <<".", "j", "p", "g">>
EXT_JPEG == <<".", "j", "p", "e", "g">>
EXT_PNG  == <<".", "p", "n", "g">>

VIDEO_MP4       == <<"v","i","d","e","o","/","m","p","4">>
VIDEO_QUICKTIME == <<"v","i","d","e","o","/","q","u","i","c","k","t","i","m","e">>
IMAGE_JPEG      == <<"i","m","a","g","e","/","j","p","e","g">>
IMAGE_PNG       == <<"i","m","a","g","e","/","p","n","g">>
IMAGE_JPG       == <<"i","m","a","g","e","/","j","p","g">>
IMAGE_PJPEG     == <<"i","m","a","g","e","/","p","j","p","e","g">>
VIDEO_X_M4V     == <<"v","i","d","e","o","/","x","-","m","4","v">>
OCTET_STREAM    == <<"a","p","p","l","i","c","a","t","i","o","n","/",
                     "o","c","t","e","t","-","s","t","r","e","a","m">>

ALLOWED_FILE_TYPES == {VIDEO_MP4, VIDEO_QUICKTIME, IMAGE_JPEG, IMAGE_PNG}
ALLOWED_EXTENSIONS == {EXT_MP4, EXT_MOV, EXT_JPG, EXT_JPEG, EXT_PNG}
BROWSER_VARIATIONS == {IMAGE_JPG, IMAGE_PJPEG, VIDEO_X_M4V}

LOCAL_UPLOAD_DIR == "uploads/documents/"
S3_PREFIX        == "documents/"

NULL == "NULL"
NOT_CONFIGURED == "Analysis unavailable: AWS Bedrock is not configured"
UNAVAILABLE    == "Analysis unavailable: error"
ANALYSIS       == "## Body Position"

----------------------------------------------------------------------------
(* Python string operations *)

UpperToLower ==
    ("A" :> "a") @@ ("D" :> "d") @@ ("E" :> "e") @@ ("G" :> "g") @@
    ("I" :> "i") @@ ("J" :> "j") @@ ("M" :> "m") @@ ("O" :> "o") @@
    ("P" :> "p") @@ ("V" :> "v")

LowerChar(c) == IF c \in DOMAIN UpperToLower THEN UpperToLower[c] ELSE c

Lower(s) == [i \in 1..Len(s) |-> LowerChar(s[i])]

StartsWith(s, p) == Len(s) >= Len(p) /\ SubSeq(s, 1, Len(p)) = p

HasDot(filename) == \E i \in 1..Len(filename) : filename[i] = "."

LastDot(filename) ==
    CHOOSE i \in 1..Len(filename) :
        filename[i] = "." /\ \A j \in (i+1)..Len(filename) : filename[j] # "."

\* DocumentService._get_file_extension, for a filename that has a dot
\* (without one it raises ValidationError: see the callers)
get_file_extension(filename) ==
    <<".">> \o Lower(SubSeq(filename, LastDot(filename) + 1, Len(filename)))

----------------------------------------------------------------------------
(* Inputs *)

RacerIds == {"racer1", "racer2"}

NAME_MP4   == <<"r", ".", "m", "p", "4">>
NAME_JPG   == <<"P", ".", "J", "P", "G">>
NAME_PDF   == <<"n", ".", "p", "d", "f">>
NAME_NOEXT == <<"r", "u", "n">>
NAME_EMPTY == << >>

NO_CONTENT_TYPE == << >>
APPLICATION_PDF == <<"a","p","p","l","i","c","a","t","i","o","n","/","p","d","f">>
UPPER_VIDEO_MP4 == <<"V","I","D","E","O","/","M","P","4">>

\* an upload: the client's filename and content type and the bytes sent
\* (their length and a tag standing for what they are)
Upload(name, type, size, tag) ==
    [filename |-> name, file_type |-> type, size |-> size, tag |-> tag]

\* multipart uploads offered to POST /racers/{id}/documents
Files ==
    { Upload(NAME_MP4,   VIDEO_MP4,       1,                 "x"),
      Upload(NAME_JPG,   NO_CONTENT_TYPE, MAX_FILE_SIZE,     "y"),
      Upload(NAME_MP4,   VIDEO_MP4,       MAX_FILE_SIZE + 1, "x"),
      Upload(NAME_PDF,   VIDEO_MP4,       1,                 "x"),
      Upload(NAME_NOEXT, VIDEO_MP4,       1,                 "x"),
      Upload(NAME_MP4,   APPLICATION_PDF, 1,                 "x"),
      Upload(NAME_EMPTY, VIDEO_MP4,       1,                 "x") }

\* bodies offered to POST /racers/{id}/documents/upload-url (no bytes: tag "-")
UrlRequests ==
    { Upload(NAME_JPG,   IMAGE_JPG,       MAX_FILE_SIZE,     "-"),
      Upload(NAME_MP4,   UPPER_VIDEO_MP4, MAX_FILE_SIZE + 1, "-"),
      Upload(NAME_PDF,   VIDEO_MP4,       1,                 "-"),
      Upload(NAME_NOEXT, VIDEO_MP4,       1,                 "-"),
      Upload(NAME_MP4,   APPLICATION_PDF, 1,                 "-") }

NoInput == Upload(NAME_EMPTY, NO_CONTENT_TYPE, 0, "-")

Content(size, tag) == [len |-> size, tag |-> tag]
NoBytes == Content(0, "-")

\* what a client may PUT to a presigned URL (not bound to the declared size)
ClientContents == { Content(2, "y") }

\* what the analysis of one request meets: no adapter, or a Converse call
\* that answers with a text or fails
BedrockOutcomes ==
    IF bedrock_service = NULL THEN {"unconfigured"} ELSE {ANALYSIS, "error"}

----------------------------------------------------------------------------
(* Validation *)

\* the content-type test of create_upload_url and validate_file
content_type_allowed(ct) ==
    Lower(ct) \in ALLOWED_FILE_TYPES \/ Lower(ct) \in BROWSER_VARIATIONS

\* the size test with the limit itself refused
size_too_large_inclusive(file_size) == file_size >= MAX_FILE_SIZE

\* the size test of create_upload_url and upload_document
size_too_large(file_size) == file_size > MAX_FILE_SIZE

\* DocumentService.validate_file: TRUE when it raises ValidationError
validate_file_raises(file) ==
    \/ file.filename = << >>
    \/ ~HasDot(file.filename)
    \/ Lower(get_file_extension(file.filename)) \notin ALLOWED_EXTENSIONS
    \/ (file.file_type # << >> /\ ~content_type_allowed(file.file_type))

\* the checks that open create_upload_url: TRUE when one raises ValidationError
upload_url_params_raise(filename, file_type, file_size) ==
    \/ ~HasDot(filename)
    \/ get_file_extension(filename) \notin ALLOWED_EXTENSIONS
    \/ ~content_type_allowed(file_type)
    \/ size_too_large(file_size)

----------------------------------------------------------------------------
(* Storage: the upload directory and the bucket *)

NoObjects == [k \in {} |-> NoBytes]

Put(store, key, content) ==
    [k \in DOMAIN store \cup {key} |-> IF k = key THEN content ELSE store[k]]

Remove(store, key) == [k \in DOMAIN store \ {key} |-> store[k]]

\* a file name made of the extension alone
LocalPath_without_uuid(n, ext) == [dir |-> LOCAL_UPLOAD_DIR, uuid |-> 0, ext |-> ext]

LocalPath(n, ext) == [dir |-> LOCAL_UPLOAD_DIR, uuid |-> n, ext |-> ext]
S3Key(n, ext)     == [dir |-> S3_PREFIX, uuid |-> n, ext |-> ext]

----------------------------------------------------------------------------
(* Analysis *)

\* an adapter that sends whatever it is given
analyze_ski_form_unchecked(file_bytes, file_type, converse) == converse

\* BedrockService.analyze_ski_form: the text returned, or "error" when it
\* raises BedrockServiceError; converse is what the Bedrock call would do
analyze_ski_form(file_bytes, file_type, converse) ==
    IF ~StartsWith(file_type, <<"v","i","d","e","o","/">>)
       /\ ~StartsWith(file_type, <<"i","m","a","g","e","/">>)
    THEN "error"
    ELSE converse

\* _run_bedrock_analysis that returns nothing when the adapter raises
run_bedrock_analysis_none(file_bytes, file_type, bedrock) ==
    IF bedrock = "unconfigured"
    THEN NOT_CONFIGURED
    ELSE LET r == analyze_ski_form(file_bytes, file_type, bedrock)
         IN  IF r = "error" THEN NULL ELSE r

\* DocumentService._run_bedrock_analysis
run_bedrock_analysis(file_bytes, file_type, bedrock) ==
    IF bedrock = "unconfigured"
    THEN NOT_CONFIGURED
    ELSE LET r == analyze_ski_form(file_bytes, file_type, bedrock)
         IN  IF r = "error" THEN UNAVAILABLE ELSE r

----------------------------------------------------------------------------
(* DocumentRepository *)

Row(racer_id, filename, file_path, file_type, file_size, analysis, status) ==
    [racer_id |-> racer_id, filename |-> filename, file_path |-> file_path,
     file_type |-> file_type, file_size |-> file_size,
     analysis |-> analysis, status |-> status]

\* a create that replaces the row the racer already has under that filename
repository_create_upsert(table, id, row, now) ==
    LET same == {e \in DOMAIN table : /\ table[e].racer_id = row.racer_id
                                      /\ table[e].filename = row.filename}
    IN  IF same = {}
        THEN table @@ (id :> (row @@ [uploaded_at |-> now]))
        ELSE [e \in DOMAIN table |->
                IF e \in same THEN row @@ [uploaded_at |-> now] ELSE table[e]]

\* DocumentRepository.create: a new row under a new id; the row gets its
\* uploaded_at from the server default now()
repository_create(table, id, row, now) ==
    table @@ (id :> (row @@ [uploaded_at |-> now]))

\* a delete that reports success and removes nothing
repository_delete_noop(table, id) == table

repository_delete(table, id) == [d \in DOMAIN table \ {id} |-> table[d]]

repository_update(table, id, analysis, status) ==
    [table EXCEPT ![id].analysis = analysis, ![id].status = status]

\* a query without the racer_id filter
repository_get_by_racer_unfiltered(table, racer_id) == DOMAIN table

repository_get_by_racer(table, racer_id) ==
    {d \in DOMAIN table : table[d].racer_id = racer_id}

\* the lists DocumentRepository.get_by_racer may return: the racer's rows,
\* each once, ORDER BY uploaded_at DESC; rows with the same uploaded_at come
\* in whatever order the database gives them
repository_get_by_racer_ordered(table, racer_id) ==
    LET ids == repository_get_by_racer(table, racer_id)
        n   == Cardinality(ids)
    IN  { q \in [1..n -> ids] :
            /\ \A i, j \in 1..n : i # j => q[i] # q[j]
            /\ \A i \in 1..n, j \in 1..n :
                  i < j => table[q[i]].uploaded_at >= table[q[j]].uploaded_at }

----------------------------------------------------------------------------
(* Service calls *)

\* the record of a call: which operation, on which document id (0: none),
\* how it ended, its input, what each collaborator did ("none": not called),
\* the analysis text the call produced and the one the row held before ("-":
\* none); racer and list are filled in by the calls that are about a racer
Call(op, id, result, input, s3o, fso, dbo, bedrock, cleanup, text, prev) ==
    [op |-> op, id |-> id, result |-> result, input |-> input,
     s3 |-> s3o, fs |-> fso, db |-> dbo, bedrock |-> bedrock,
     cleanup |-> cleanup, text |-> text, prev |-> prev,
     racer |-> "-", list |-> << >>]

\* no request is being answered
Idle == Call("none", 0, "ok", NoInput,
             "none", "none", "none", "none", "none", "-", "-")

\* the worker threads that serve requests at the same time
Procs == 1..MaxProcs

\* where a call stands: its operation, the statement it has reached, the
\* storage name and the document id it works with, its input and its result
Proc(op, pc, key, id, input, racer_id, result) ==
    [op |-> op, pc |-> pc, key |-> key, id |-> id, input |-> input,
     racer |-> racer_id, result |-> result]

\* the first and the last thread
Analyst == CHOOSE p \in Procs : \A q \in Procs : p <= q
Deleter == CHOOSE p \in Procs : \A q \in Procs : p >= q

\* a thread with no request
NoCall == Proc("none", "idle", 0, 0, NoInput, "-", "-")

Init ==
    /\ uploads_bucket \in {"", "uploads-bucket"}
    /\ bedrock_service \in {"BedrockService", NULL}
    /\ racers = RacerIds
    /\ docs = [d \in {} |-> 0]
    /\ disk = NoObjects
    /\ s3 = NoObjects
    /\ nextId = 0
    /\ nextKey = 0
    /\ clock = 0
    /\ deleted = {}
    /\ last = Idle
    /\ procs = [p \in Procs |-> NoCall]

\* the try block with the write ahead of the size check
store_file_write_first(files, file_path, file_content, fso) ==
    IF size_too_large(file_content.len)
    THEN [error |-> "ValidationError", files |-> Put(files, file_path, file_content)]
    ELSE CASE fso = "ok" ->
                [error |-> "none", files |-> Put(files, file_path, file_content)]
           [] fso = "partial" ->
                [error |-> "FileStorageError", files |-> Put(files, file_path, NoBytes)]
           [] OTHER ->
                [error |-> "FileStorageError", files |-> files]

\* the try block writing a file cut short without noticing
store_file_truncating(files, file_path, file_content, fso) ==
    IF size_too_large(file_content.len)
    THEN [error |-> "ValidationError", files |-> files]
    ELSE CASE fso = "ok" ->
                [error |-> "none", files |-> Put(files, file_path, NoBytes)]
           [] fso = "partial" ->
                [error |-> "FileStorageError", files |-> Put(files, file_path, NoBytes)]
           [] OTHER ->
                [error |-> "FileStorageError", files |-> files]

\* the try block of upload_document that reads the upload, checks its size
\* and writes it: the exception it ends with ("none": none) and the upload
\* directory afterwards: the whole file, no file (open failed), or a file cut
\* short (write failed)
store_file(files, file_path, file_content, fso) ==
    IF size_too_large(file_content.len)
    THEN [error |-> "ValidationError", files |-> files]
    ELSE CASE fso = "ok" ->
                [error |-> "none", files |-> Put(files, file_path, file_content)]
           [] fso = "partial" ->
                [error |-> "FileStorageError", files |-> Put(files, file_path, NoBytes)]
           [] OTHER ->
                [error |-> "FileStorageError", files |-> files]

\* a clean-up that leaves the file where it is
disk_after_cleanup_skipped(files, file_path, cleanup) == files

\* the clean-up of upload_document after repository.create has failed
disk_after_cleanup(files, file_path, cleanup) ==
    IF cleanup = "ok" /\ file_path \in DOMAIN files
    THEN Remove(files, file_path)
    ELSE files

\* the row upload_document creates
complete_row(racer_id, file, file_path, file_size, analysis_text) ==
    Row(racer_id, file.filename, file_path,
        IF file.file_type # << >> THEN file.file_type ELSE OCTET_STREAM,
        file_size, analysis_text, "complete")

\* a route that lets the multipart upload through whatever is configured
upload_route_refuses_never(bucket_name) == FALSE

\* the guard of the multipart upload route: TRUE when it answers 400
upload_route_refuses(bucket_name) == bucket_name # ""

\* POST /racers/{id}/documents with no bucket configured:
\* DocumentService.upload_document.  The file system lets the call down in
\* one of three places: LOCAL_UPLOAD_DIR.mkdir ("mkdir", outside the try
\* block), open() ("error") or write() ("partial").  Neither the route nor the
\* service looks the racer up: a row for a racer that is not there is
\* created where the database does not enforce the foreign key (SQLite as
\* database.py opens it) and refused (a database error) where it does.
UploadDocument ==
    /\ last = Idle
    /\ ~upload_route_refuses(uploads_bucket)
    /\ UNCHANGED <<procs, uploads_bucket, bedrock_service, racers, s3, deleted>>
    /\ \E file \in Files :
        IF validate_file_raises(file)
        THEN /\ last' = Call("upload_document", 0, "ValidationError", file,
                             "none", "none", "none", "none", "none", "-", "-")
             /\ UNCHANGED <<docs, disk, nextId, nextKey, clock>>
        ELSE
          LET ext          == get_file_extension(file.filename)
              file_path    == LocalPath(nextKey + 1, ext)
              file_content == Content(file.size, file.tag)
              file_size    == file_content.len
          IN
          \E fso \in {"mkdir", "ok", "error", "partial"} :
            IF fso = "mkdir"
            THEN /\ last' = Call("upload_document", 0, "Unhandled", file, "none",
                                 fso, "none", "none", "none", "-", "-")
                 /\ UNCHANGED <<docs, disk, nextId, nextKey, clock>>
            ELSE
            LET stored     == store_file(disk, file_path, file_content, fso)
                file_bytes == IF file_path \in DOMAIN stored.files
                              THEN stored.files[file_path] ELSE NoBytes
                file_type  == IF file.file_type # << >>
                              THEN file.file_type ELSE OCTET_STREAM
            IN
            /\ nextKey' = IF file_path \in DOMAIN stored.files
                          THEN nextKey + 1 ELSE nextKey
            /\ nextKey' <= MaxUploads
            /\ IF stored.error # "none"
               THEN /\ disk' = stored.files
                    /\ last' = Call("upload_document", 0, stored.error, file, "none",
                                    IF stored.error = "ValidationError"
                                    THEN "none" ELSE fso,
                                    "none", "none", "none", "-", "-")
                    /\ UNCHANGED <<docs, nextId, clock>>
               ELSE \E bedrock \in BedrockOutcomes, dbo \in {"ok", "error"} :
                    LET analysis_text ==
                            run_bedrock_analysis(file_bytes, file_type, bedrock)
                    IN
                    IF dbo = "ok"
                    THEN \E racer_id \in RacerIds :
                         /\ nextId < MaxUploads
                         /\ nextId' = nextId + 1
                         /\ UNCHANGED clock
                         /\ disk' = stored.files
                         /\ docs' = repository_create(docs, nextId + 1,
                                        complete_row(racer_id, file, file_path,
                                                     file_size, analysis_text),
                                        clock)
                         /\ last' = Call("upload_document", nextId + 1, "ok", file,
                                         "none", fso, dbo, bedrock, "none",
                                         analysis_text, "-")
                    ELSE \E cleanup \in {"ok", "error"} :
                         /\ disk' = disk_after_cleanup(stored.files, file_path, cleanup)
                         /\ last' = Call("upload_document", 0, "DocumentServiceError",
                                         file, "none", fso, dbo, bedrock, cleanup,
                                         analysis_text, "-")
                         /\ UNCHANGED <<docs, nextId, clock>>

\* POST /racers/{id}/documents with a bucket configured: the route answers
\* 400 and never constructs the service
UploadDisabled ==
    /\ last = Idle
    /\ upload_route_refuses(uploads_bucket)
    /\ last' = Call("upload_document", 0, "Http400", NoInput,
                     "none", "none", "none", "none", "none", "-", "-")
    /\ UNCHANGED <<procs, uploads_bucket, bedrock_service, racers, docs, disk, s3, nextId, nextKey,
                 clock, deleted>>

\* what boto3 does when asked: it answers, or raises ClientError, or raises
\* an exception that is not a ClientError (connection, credentials, parameters).
\* The service passes Bucket=uploads_bucket: with no bucket configured that is
\* the empty string, which botocore rejects (ParamValidationError, not a
\* ClientError) before any request is made.
S3Outcomes(bucket_name) ==
    IF bucket_name = "" THEN {"BotoCoreError"}
    ELSE {"ok", "ClientError", "BotoCoreError"}

\* the row create_upload_url creates
pending_row(racer_id, filename, s3_key, file_type, file_size) ==
    Row(racer_id, filename, s3_key, file_type, file_size, NULL, "pending")

\* POST /racers/{id}/documents/upload-url: DocumentService.create_upload_url
CreateUploadUrl ==
    /\ last = Idle
    /\ UNCHANGED <<procs, uploads_bucket, bedrock_service, racers, disk, s3, deleted>>
    /\ \E body \in UrlRequests :
        IF upload_url_params_raise(body.filename, body.file_type, body.size)
        THEN /\ last' = Call("create_upload_url", 0, "ValidationError", body,
                             "none", "none", "none", "none", "none", "-", "-")
             /\ UNCHANGED <<docs, nextId, nextKey, clock>>
        ELSE
          LET ext    == get_file_extension(body.filename)
              s3_key == S3Key(nextKey + 1, ext)
          IN
          \E s3o \in S3Outcomes(uploads_bucket) :
            IF s3o # "ok"
            THEN /\ last' = Call("create_upload_url", 0,
                                 IF s3o = "ClientError"
                                 THEN "FileStorageError" ELSE "Unhandled",
                                 body, s3o, "none", "none", "none", "none",
                                 "-", "-")
                 /\ UNCHANGED <<docs, nextId, nextKey, clock>>
            ELSE \E dbo \in {"ok", "error"} :
                 IF dbo = "ok"
                 THEN \E racer_id \in RacerIds :
                      /\ nextKey < MaxUploads
                      /\ nextId < MaxUploads
                      /\ nextId' = nextId + 1
                      /\ nextKey' = nextKey + 1
                      /\ UNCHANGED clock
                      /\ docs' = repository_create(docs, nextId + 1,
                                     pending_row(racer_id, body.filename, s3_key,
                                                 body.file_type, body.size),
                                     clock)
                      /\ last' = Call("create_upload_url", nextId + 1, "ok", body,
                                      s3o, "none", dbo, "none", "none", "-", "-")
                 ELSE /\ last' = Call("create_upload_url", 0,
                                      "DocumentServiceError", body,
                                      s3o, "none", dbo, "none", "none", "-", "-")
                      /\ UNCHANGED <<docs, nextId, nextKey, clock>>

\* step 2 of the presigned flow: the frontend PUTs the file to the bucket
\* under the key of a row made by create_upload_url
ClientPut ==
    /\ last = Idle
    /\ \E d \in DOMAIN docs, content \in ClientContents :
        /\ docs[d].file_path.dir = S3_PREFIX
        /\ docs[d].file_path \notin DOMAIN s3
        /\ s3' = Put(s3, docs[d].file_path, content)
        /\ last' = Call("client_put", d, "ok", NoInput,
                        "ok", "none", "none", "none", "none", "-", "-")
    /\ UNCHANGED <<procs, uploads_bucket, bedrock_service, racers, docs, disk, nextId, nextKey,
                 clock, deleted>>

DocumentIds == 1..MaxUploads

\* a get_object whose missing key goes unnoticed
get_object_outcome_lenient(bucket, key, s3o) == s3o

\* s3.get_object as analyze_document sees it: a missing key is a ClientError
get_object_outcome(bucket, key, s3o) ==
    IF s3o = "ok" /\ key \notin DOMAIN bucket THEN "NoSuchKey" ELSE s3o

\* an update that keeps an analysis the row already has
analyzed_fields_keep_first(document, analysis_text) ==
    [analysis |-> IF document.analysis # NULL
                  THEN document.analysis ELSE analysis_text,
     status |-> "complete"]

\* an update that puts an unavailable analysis back to pending
analyzed_fields_back_to_pending(document, analysis_text) ==
    IF analysis_text \in {NOT_CONFIGURED, UNAVAILABLE}
    THEN [analysis |-> NULL, status |-> "pending"]
    ELSE [analysis |-> analysis_text, status |-> "complete"]

\* the fields analyze_document hands to repository.update
analyzed_fields(document, analysis_text) ==
    [analysis |-> analysis_text, status |-> "complete"]

\* POST /racers/{id}/documents/{doc_id}/analyze: DocumentService.analyze_document
AnalyzeDocument ==
    /\ last = Idle
    /\ UNCHANGED <<procs, uploads_bucket, bedrock_service, racers, disk, s3, nextId, nextKey,
                 clock, deleted>>
    /\ \E document_id \in DocumentIds :
        IF document_id \notin DOMAIN docs
        THEN /\ last' = Call("analyze_document", document_id, "NotFoundError",
                             NoInput, "none", "none", "ok", "none", "none",
                             "-", "-")
             /\ UNCHANGED docs
        ELSE
          LET document == docs[document_id]
              s3_key   == document.file_path
          IN
          \E s3o \in S3Outcomes(uploads_bucket) :
            LET got == get_object_outcome(s3, s3_key, s3o) IN
            IF got # "ok"
            THEN /\ last' = Call("analyze_document", document_id,
                                 IF got = "BotoCoreError"
                                 THEN "Unhandled" ELSE "FileStorageError",
                                 NoInput, got, "none", "ok", "none", "none",
                                 "-", "-")
                 /\ UNCHANGED docs
            ELSE \E bedrock \in BedrockOutcomes, dbo \in {"ok", "error"} :
                 LET file_bytes    == IF s3_key \in DOMAIN s3
                                      THEN s3[s3_key] ELSE NoBytes
                     analysis_text == run_bedrock_analysis(
                                          file_bytes, document.file_type, bedrock)
                     fields        == analyzed_fields(document, analysis_text)
                 IN
                 IF dbo = "ok"
                 THEN /\ docs' = repository_update(docs, document_id,
                                                   fields.analysis, fields.status)
                      /\ last' = Call("analyze_document", document_id, "ok",
                                      NoInput, got, "none", dbo, bedrock, "none",
                                      analysis_text, document.analysis)
                 ELSE /\ last' = Call("analyze_document", document_id, "Unhandled",
                                      NoInput, got, "none", dbo, bedrock, "none",
                                      analysis_text, document.analysis)
                      /\ UNCHANGED docs

\* a lookup that never raises
get_document_raises_never(table, document_id) == FALSE

\* DocumentService.get_document: TRUE when it raises NotFoundError
get_document_raises(table, document_id) == document_id \notin DOMAIN table

\* GET /documents/{doc_id}: DocumentService.get_document
GetDocument ==
    /\ last = Idle
    /\ \E document_id \in DocumentIds :
         last' = Call("get_document", document_id,
                      IF get_document_raises(docs, document_id)
                      THEN "NotFoundError" ELSE "ok",
                      NoInput, "none", "none", "ok", "none", "none", "-", "-")
    /\ UNCHANGED <<procs, uploads_bucket, bedrock_service, racers, docs, disk, s3, nextId, nextKey,
                 clock, deleted>>

\* GET /racers/{id}/documents: DocumentService.get_documents
GetDocuments ==
    /\ last = Idle
    /\ \E racer_id \in RacerIds, dbo \in {"ok", "error"} :
        IF dbo = "ok"
        THEN \E documents \in repository_get_by_racer_ordered(docs, racer_id) :
             last' = [Call("get_documents", 0, "ok", NoInput,
                           "none", "none", dbo, "none", "none", "-", "-")
                      EXCEPT !.racer = racer_id, !.list = documents]
        ELSE last' = [Call("get_documents", 0, "DocumentServiceError", NoInput,
                           "none", "none", dbo, "none", "none", "-", "-")
                      EXCEPT !.racer = racer_id]
    /\ UNCHANGED <<procs, uploads_bucket, bedrock_service, racers, docs, disk, s3, nextId, nextKey,
                 clock, deleted>>

\* a URL answered from memory, without asking the object store
GetDocumentUrl_cached ==
    /\ last = Idle
    /\ \E document_id \in DOMAIN docs :
         last' = Call("get_document_url", document_id, "ok",
                      NoInput, "none", "none", "ok", "none", "none", "-", "-")
    /\ UNCHANGED <<procs, uploads_bucket, bedrock_service, racers, docs, disk, s3, nextId, nextKey,
                 clock, deleted>>

\* GET /documents/{doc_id}/url: DocumentService.get_document_url
GetDocumentUrl ==
    /\ last = Idle
    /\ \E document_id \in DocumentIds :
        IF get_document_raises(docs, document_id)
        THEN last' = Call("get_document_url", document_id, "NotFoundError",
                          NoInput, "none", "none", "ok", "none", "none", "-", "-")
        ELSE \E s3o \in S3Outcomes(uploads_bucket) :
             last' = Call("get_document_url", document_id,
                          CASE s3o = "ok"          -> "ok"
                            [] s3o = "ClientError" -> "FileStorageError"
                            [] OTHER               -> "Unhandled",
                          NoInput, s3o, "none", "ok", "none", "none", "-", "-")
    /\ UNCHANGED <<procs, uploads_bucket, bedrock_service, racers, docs, disk, s3, nextId, nextKey,
                 clock, deleted>>

\* the bucket after delete_document's s3.delete_object
s3_after_delete(bucket, key, s3o) ==
    IF s3o = "ok" /\ key \in DOMAIN bucket THEN Remove(bucket, key) ELSE bucket

\* the upload directory after delete_document's exists()/unlink()
disk_after_delete(files, file_path, fso) ==
    IF fso = "ok" /\ file_path \in DOMAIN files
    THEN Remove(files, file_path)
    ELSE files

\* DELETE /documents/{doc_id}: DocumentService.delete_document.  The storage
\* delete comes first; repository.delete then commits, and a commit that
\* fails raises out of the call with the row still in the table.
DeleteDocument ==
    /\ last = Idle
    /\ UNCHANGED <<procs, uploads_bucket, bedrock_service, racers, nextId, nextKey, clock>>
    /\ \E document_id \in DocumentIds :
        IF get_document_raises(docs, document_id)
        THEN /\ last' = Call("delete_document", document_id, "NotFoundError",
                             NoInput, "none", "none", "none", "none", "none",
                             "-", "-")
             /\ UNCHANGED <<docs, disk, s3, deleted>>
        ELSE
          LET document == docs[document_id] IN
          IF uploads_bucket # ""
          THEN \E s3o \in S3Outcomes(uploads_bucket) :
               IF s3o = "BotoCoreError"
               THEN /\ last' = Call("delete_document", document_id, "Unhandled",
                                    NoInput, s3o, "none", "none", "none", "none",
                                    "-", "-")
                    /\ UNCHANGED <<docs, disk, s3, deleted>>
               ELSE \E dbo \in {"ok", "error"} :
                    /\ s3' = s3_after_delete(s3, document.file_path, s3o)
                    /\ docs' = IF dbo = "ok"
                               THEN repository_delete(docs, document_id) ELSE docs
                    /\ deleted' = IF dbo = "ok"
                                  THEN deleted \cup {document_id} ELSE deleted
                    /\ last' = Call("delete_document", document_id,
                                    IF dbo = "ok" THEN "ok" ELSE "Unhandled",
                                    NoInput, s3o, "none", dbo, "none", "none",
                                    "-", "-")
                    /\ UNCHANGED disk
          ELSE \E fso \in {"ok", "error"}, dbo \in {"ok", "error"} :
               /\ disk' = disk_after_delete(disk, document.file_path, fso)
               /\ docs' = IF dbo = "ok"
                          THEN repository_delete(docs, document_id) ELSE docs
               /\ deleted' = IF dbo = "ok"
                             THEN deleted \cup {document_id} ELSE deleted
               /\ last' = Call("delete_document", document_id,
                               IF dbo = "ok" THEN "ok" ELSE "Unhandled",
                               NoInput, "none", fso, dbo, "none", "none",
                               "-", "-")
               /\ UNCHANGED s3

\* the documents table after the ORM has deleted a racer: the relationship
\* Racer.documents cascades the delete to the racer's rows
cascade_delete(table, racer_id) ==
    [d \in {e \in DOMAIN table : table[e].racer_id # racer_id} |-> table[d]]

\* DELETE /racers/{id}: RacerService.delete_racer over RacerRepository.delete.
\* Only rows go: no file and no object is touched.
DeleteRacer ==
    /\ last = Idle
    /\ \E racer_id \in RacerIds :
        IF racer_id \notin racers
        THEN /\ last' = [Call("delete_racer", 0, "NotFoundError", NoInput,
                              "none", "none", "none", "none", "none", "-", "-")
                           EXCEPT !.racer = racer_id]
             /\ UNCHANGED <<racers, docs>>
        ELSE \E dbo \in {"ok", "error"} :
             /\ racers' = IF dbo = "ok" THEN racers \ {racer_id} ELSE racers
             /\ docs' = IF dbo = "ok" THEN cascade_delete(docs, racer_id) ELSE docs
             /\ last' = [Call("delete_racer", 0,
                              IF dbo = "ok" THEN "ok" ELSE "Unhandled", NoInput,
                              "none", "none", dbo, "none", "none", "-", "-")
                           EXCEPT !.racer = racer_id]
    /\ UNCHANGED <<procs, uploads_bucket, bedrock_service, disk, s3, nextId, nextKey,
                   clock, deleted>>

\* Time passes on the database server: rows created from now on get a later
\* uploaded_at, rows created with no tick in between get the same one (the
\* server's clock has a resolution).  Ticks that no row could tell apart are
\* left out.
Tick ==
    /\ last = Idle
    /\ clock < MaxUploads
    /\ \E d \in DOMAIN docs : docs[d].uploaded_at = clock
    /\ clock' = clock + 1
    /\ UNCHANGED <<procs, uploads_bucket, bedrock_service, racers, docs, disk, s3,
                   nextId, nextKey, deleted, last>>

\* get_db: the response is sent and the request's session is closed
CloseRequest ==
    /\ last # Idle
    /\ last' = Idle
    /\ UNCHANGED <<procs, uploads_bucket, bedrock_service, racers, docs, disk, s3,
                   nextId, nextKey, clock, deleted>>

----------------------------------------------------------------------------
(* Requests served at the same time.  The routes are plain def functions,  *)
(* which FastAPI runs on worker threads, each with its own session: the    *)
(* statements of two calls interleave.  A step below is one statement that *)
(* reads or writes the table, the upload directory or the bucket.          *)

\* what the threads are asked to store: all of them the same file, or the
\* same upload-url body, for the same racer
SameFile == Upload(NAME_MP4, VIDEO_MP4, 1, "x")
SameUrlRequest == Upload(NAME_JPG, IMAGE_JPG, MAX_FILE_SIZE, "-")
SameRacer == "racer1"

Others == <<uploads_bucket, bedrock_service, racers, deleted, last>>

\* a call that has ended: its operation, the document it was about, its result
Done(op, id, result) == Proc(op, "done", 0, id, NoInput, "-", result)

\* upload_document up to uuid.uuid4(): the call has its storage name
BeginUpload(p) ==
    /\ procs[p].pc = "idle"
    /\ uploads_bucket = ""
    /\ nextKey < MaxUploads
    /\ ~validate_file_raises(SameFile)
    /\ procs' = [procs EXCEPT ![p] = Proc("upload_document", "write",
                                          nextKey + 1, 0, SameFile, SameRacer, "-")]
    /\ nextKey' = nextKey + 1
    /\ UNCHANGED <<docs, disk, s3, nextId, clock>>
    /\ UNCHANGED Others

\* upload_document: open(file_path, "wb") and write
WriteFile(p) ==
    /\ procs[p].pc = "write"
    /\ LET file == procs[p].input
           file_path == LocalPath(procs[p].key, get_file_extension(file.filename))
       IN  disk' = Put(disk, file_path, Content(file.size, file.tag))
    /\ procs' = [procs EXCEPT ![p].pc = "create"]
    /\ UNCHANGED <<docs, s3, nextId, nextKey, clock>>
    /\ UNCHANGED Others

\* create_upload_url up to the presigned URL: the call has its key
BeginUploadUrl(p) ==
    /\ procs[p].pc = "idle"
    /\ uploads_bucket # ""
    /\ nextKey < MaxUploads
    /\ ~upload_url_params_raise(SameUrlRequest.filename,
                                SameUrlRequest.file_type, SameUrlRequest.size)
    /\ procs' = [procs EXCEPT ![p] = Proc("create_upload_url", "create", nextKey + 1,
                                          0, SameUrlRequest, SameRacer, "-")]
    /\ nextKey' = nextKey + 1
    /\ UNCHANGED <<docs, disk, s3, nextId, clock>>
    /\ UNCHANGED Others

\* repository.create of either upload: the row, under a new id
CreateRow(p) ==
    /\ procs[p].pc = "create"
    /\ LET c    == procs[p]
           ext  == get_file_extension(c.input.filename)
       IN  \E bedrock \in BedrockOutcomes :
           docs' = repository_create(docs, nextId + 1,
                 IF c.op = "upload_document"
                 THEN complete_row(c.racer, c.input, LocalPath(c.key, ext),
                                   c.input.size,
                                   run_bedrock_analysis(
                                       Content(c.input.size, c.input.tag),
                                       IF c.input.file_type # << >>
                                       THEN c.input.file_type ELSE OCTET_STREAM,
                                       bedrock))
                 ELSE pending_row(c.racer, c.input.filename, S3Key(c.key, ext),
                                  c.input.file_type, c.input.size),
                 clock)
    /\ nextId' = nextId + 1
    /\ procs' = [procs EXCEPT ![p] = Done(procs[p].op, nextId + 1, "ok")]
    /\ UNCHANGED <<disk, s3, nextKey, clock>>
    /\ UNCHANGED Others

\* delete_document: get_document
BeginDelete(p) ==
    /\ procs[p].pc = "idle"
    /\ \E document_id \in DocumentIds :
         procs' = [procs EXCEPT ![p] =
                     IF get_document_raises(docs, document_id)
                     THEN Done("delete_document", document_id, "NotFoundError")
                     ELSE Proc("delete_document", "storage",
                               docs[document_id].file_path, document_id,
                               NoInput, "-", "-")]
    /\ UNCHANGED <<docs, disk, s3, nextId, nextKey, clock>>
    /\ UNCHANGED Others

\* delete_document: s3.delete_object, or exists() and unlink()
DeleteStorage(p) ==
    /\ procs[p].pc = "storage"
    /\ \E o \in {"ok", "error"} :
         IF uploads_bucket # ""
         THEN /\ s3' = s3_after_delete(s3, procs[p].key,
                                       IF o = "ok" THEN "ok" ELSE "ClientError")
              /\ UNCHANGED disk
         ELSE /\ disk' = disk_after_delete(disk, procs[p].key, o)
              /\ UNCHANGED s3
    /\ procs' = [procs EXCEPT ![p].pc = "lookup"]
    /\ UNCHANGED <<docs, nextId, nextKey, clock>>
    /\ UNCHANGED Others

\* DocumentRepository.delete: get_by_id
DeleteLookup(p) ==
    /\ procs[p].pc = "lookup"
    /\ procs' = IF procs[p].id \in DOMAIN docs
                THEN [procs EXCEPT ![p].pc = "commit"]
                ELSE [procs EXCEPT ![p] = Done("delete_document", procs[p].id,
                                               "NotFoundError")]
    /\ UNCHANGED <<docs, disk, s3, nextId, nextKey, clock>>
    /\ UNCHANGED Others

\* what db.delete() and commit() do when the DELETE matches no row, another
\* session having deleted it since get_by_id: the ORM warns and the commit
\* goes through, or it raises StaleDataError
StaleDeleteOutcomes == {"ok", "StaleDataError"}

\* DocumentRepository.delete: db.delete(db_document) and db.commit()
DeleteCommit(p) ==
    /\ procs[p].pc = "commit"
    /\ IF procs[p].id \in DOMAIN docs
       THEN /\ docs' = repository_delete(docs, procs[p].id)
            /\ procs' = [procs EXCEPT ![p] = Done("delete_document", procs[p].id,
                                                  "ok")]
       ELSE /\ \E o \in StaleDeleteOutcomes :
                 procs' = [procs EXCEPT ![p] =
                              Done("delete_document", procs[p].id,
                                   IF o = "ok" THEN "ok" ELSE "Unhandled")]
            /\ UNCHANGED docs
    /\ UNCHANGED <<disk, s3, nextId, nextKey, clock>>
    /\ UNCHANGED Others

\* the client's PUT to a presigned URL, between the requests
PutObject ==
    /\ \E d \in DOMAIN docs, content \in ClientContents :
         /\ docs[d].file_path.dir = S3_PREFIX
         /\ docs[d].file_path \notin DOMAIN s3
         /\ s3' = Put(s3, docs[d].file_path, content)
    /\ UNCHANGED <<procs, docs, disk, nextId, nextKey, clock>>
    /\ UNCHANGED Others

\* analyze_document: get_document
BeginAnalyze(p) ==
    /\ procs[p].pc = "idle"
    /\ \E document_id \in DocumentIds :
         procs' = [procs EXCEPT ![p] =
                     IF get_document_raises(docs, document_id)
                     THEN Done("analyze_document", document_id, "NotFoundError")
                     ELSE Proc("analyze_document", "read",
                               docs[document_id].file_path, document_id,
                               NoInput, "-", "-")]
    /\ UNCHANGED <<docs, disk, s3, nextId, nextKey, clock>>
    /\ UNCHANGED Others

\* analyze_document: s3.get_object and the read of its body
ReadObject(p) ==
    /\ procs[p].pc = "read"
    /\ \E s3o \in S3Outcomes(uploads_bucket) :
         LET got == get_object_outcome(s3, procs[p].key, s3o) IN
         procs' = [procs EXCEPT ![p] =
                     CASE got = "ok" ->
                            [procs[p] EXCEPT !.pc = "analyse",
                                             !.input = Upload(NAME_EMPTY, NO_CONTENT_TYPE,
                                                              s3[procs[p].key].len,
                                                              s3[procs[p].key].tag)]
                       [] got = "BotoCoreError" ->
                            Done("analyze_document", procs[p].id, "Unhandled")
                       [] OTHER ->
                            Done("analyze_document", procs[p].id, "FileStorageError")]
    /\ UNCHANGED <<docs, disk, s3, nextId, nextKey, clock>>
    /\ UNCHANGED Others

\* analyze_document: _run_bedrock_analysis, which returns a text in any case
Analyse(p) ==
    /\ procs[p].pc = "analyse"
    /\ procs' = [procs EXCEPT ![p].pc = "update"]
    /\ UNCHANGED <<docs, disk, s3, nextId, nextKey, clock>>
    /\ UNCHANGED Others

\* an update that writes the row back when it is gone
UpdateRow_upserting(p) ==
    /\ procs[p].pc = "update"
    /\ docs' = repository_create(docs, procs[p].id,
                   pending_row(SameRacer, NAME_JPG, procs[p].key, IMAGE_JPG,
                               procs[p].input.size),
                   clock)
    /\ procs' = [procs EXCEPT ![p] = Done("analyze_document", procs[p].id, "ok")]
    /\ UNCHANGED <<disk, s3, nextId, nextKey, clock>>
    /\ UNCHANGED Others

\* an update that, when it fails, sends the call back to read the object again
UpdateRow_retrying(p) ==
    /\ procs[p].pc = "update"
    /\ procs' = [procs EXCEPT ![p].pc = "read"]
    /\ UNCHANGED <<docs, disk, s3, nextId, nextKey, clock>>
    /\ UNCHANGED Others

\* analyze_document: repository.update, and NotFoundError when it returns
\* nothing because the row is gone
UpdateRow(p) ==
    /\ procs[p].pc = "update"
    /\ IF get_document_raises(docs, procs[p].id)
       THEN /\ procs' = [procs EXCEPT ![p] =
                            Done("analyze_document", procs[p].id, "NotFoundError")]
            /\ UNCHANGED docs
       ELSE \E bedrock \in BedrockOutcomes, dbo \in {"ok", "error"} :
            LET document      == docs[procs[p].id]
                file_bytes    == Content(procs[p].input.size, procs[p].input.tag)
                analysis_text == run_bedrock_analysis(file_bytes,
                                                      document.file_type, bedrock)
                fields        == analyzed_fields(document, analysis_text)
            IN  IF dbo = "ok"
                THEN /\ docs' = repository_update(docs, procs[p].id,
                                                  fields.analysis, fields.status)
                     /\ procs' = [procs EXCEPT ![p] =
                                     Done("analyze_document", procs[p].id, "ok")]
                ELSE /\ procs' = [procs EXCEPT ![p] =
                                     Done("analyze_document", procs[p].id,
                                          "Unhandled")]
                     /\ UNCHANGED docs
    /\ UNCHANGED <<disk, s3, nextId, nextKey, clock>>
    /\ UNCHANGED Others

\* the call returns or raises and its thread is free again
Return(p) ==
    /\ procs[p].pc = "done"
    /\ procs' = [procs EXCEPT ![p] = NoCall]
    /\ UNCHANGED <<docs, disk, s3, nextId, nextKey, clock>>
    /\ UNCHANGED Others

----------------------------------------------------------------------------
(* Properties *)

UploadOps == {"upload_document", "create_upload_url"}

\* C1: a call of upload_document or create_upload_url that ends with
\* ValidationError leaves the upload directory, the bucket and the documents
\* table exactly as they were.
C1_ValidationHasNoSideEffects ==
    [][ (last'.op \in UploadOps /\ last'.result = "ValidationError")
        => (disk' = disk /\ s3' = s3 /\ docs' = docs) ]_vars

\* an upload whose actual byte count is over the limit has been rejected
\* while rows and files already exist
C1_Witness ==
    /\ last.op = "upload_document"
    /\ last.result = "ValidationError"
    /\ last.input.size > MAX_FILE_SIZE
    /\ DOMAIN docs # {}
    /\ DOMAIN disk # {}

C3_DeleteIsAuthoritative ==
    /\ \A id \in deleted :
        /\ get_document_raises(docs, id)
        /\ \A racer_id \in RacerIds : id \notin repository_get_by_racer(docs, racer_id)
    /\ (last.op = "get_document" /\ last.id \in deleted)
        => last.result = "NotFoundError"

\* a deleted document is asked for again while the object it named is
\* still in the bucket (its storage delete failed)
C3_Witness ==
    /\ last.op = "get_document"
    /\ last.id \in deleted
    /\ last.result = "NotFoundError"
    /\ DOMAIN docs = {}
    /\ DOMAIN s3 # {}

\* C4 as claimed: for an existing document, delete_document removes the row
\* and returns normally whatever the storage delete does (the row's own
\* delete not failing), in both configurations.
C4_DeleteSucceedsWhateverStorageDoes ==
    (/\ last.op = "delete_document"
     /\ last.result # "NotFoundError"
     /\ last.db # "error")
    => (last.result = "ok" /\ last.id \notin DOMAIN docs)

\* C5 as claimed: when upload_document has stored the file and
\* repository.create fails, an error is raised, no row is added and as many
\* files exist as before the call.
C5_FailedCreateRemovesFile ==
    [][ (last'.op = "upload_document" /\ last'.fs = "ok" /\ last'.db = "error")
        => /\ last'.result = "DocumentServiceError"
           /\ docs' = docs
           /\ Cardinality(DOMAIN disk') = Cardinality(DOMAIN disk) ]_vars

\* C5 amended: when upload_document has stored the file and
\* repository.create fails, DocumentServiceError is raised and no row is
\* added; the file just written is removed, and the upload directory is as
\* before the call, when the clean-up unlink succeeds; when the unlink
\* fails the failure is swallowed and exactly that one file stays behind.
C5_FailedCreateCleansUpBestEffort ==
    [][ (last'.op = "upload_document" /\ last'.fs = "ok" /\ last'.db = "error")
        => /\ last'.result = "DocumentServiceError"
           /\ docs' = docs
           /\ (last'.cleanup = "ok" => disk' = disk)
           /\ (last'.cleanup = "error" =>
                 /\ Cardinality(DOMAIN disk') = Cardinality(DOMAIN disk) + 1
                 /\ \A k \in DOMAIN disk : k \in DOMAIN disk' /\ disk'[k] = disk[k]) ]_vars

\* the record creation has failed and the clean-up has succeeded, next to a
\* file of an earlier upload
C5_Witness ==
    /\ last.op = "upload_document"
    /\ last.fs = "ok"
    /\ last.db = "error"
    /\ last.cleanup = "ok"
    /\ last.result = "DocumentServiceError"
    /\ DOMAIN disk # {}

C8_UploadRoundTrip ==
    (last.op = "upload_document" /\ last.result = "ok")
    => /\ ~get_document_raises(docs, last.id)
       /\ docs[last.id].file_size = last.input.size
       /\ docs[last.id].file_path \in DOMAIN disk
       /\ disk[docs[last.id].file_path] = Content(last.input.size, last.input.tag)

C8_Witness ==
    /\ last.op = "upload_document"
    /\ last.result = "ok"
    /\ last.input.tag = "y"
    /\ disk[docs[last.id].file_path] = Content(MAX_FILE_SIZE, "y")

\* the uploads of the model that are valid and exactly MAX_FILE_SIZE long
AtTheLimit ==
    { Upload(NAME_JPG, NO_CONTENT_TYPE, MAX_FILE_SIZE, "y"),
      Upload(NAME_JPG, IMAGE_JPG, MAX_FILE_SIZE, "-") }

Stored(file_path) ==
    IF file_path.dir = LOCAL_UPLOAD_DIR
    THEN file_path \in DOMAIN disk
    ELSE file_path \in DOMAIN s3

\* C10 as claimed: between service calls, every row with status complete has
\* a non-null analysis and the object its file_path names exists.
C10_CompleteRows ==
    \A d \in DOMAIN docs :
        docs[d].status = "complete"
        => (docs[d].analysis # NULL /\ Stored(docs[d].file_path))

\* C11: a row that exists before and after a step keeps its racer_id,
\* filename, file_path, file_type, file_size and uploaded_at, and it changes
\* at all only in an analyze_document call on its id, which changes nothing
\* but analysis and status; an id that has been given out and is in the table
\* no longer does not come back.
C11_RowsAreFrozen ==
    [][ /\ \A d \in DOMAIN docs \cap DOMAIN docs' :
            /\ docs'[d].racer_id = docs[d].racer_id
            /\ docs'[d].filename = docs[d].filename
            /\ docs'[d].file_path = docs[d].file_path
            /\ docs'[d].file_type = docs[d].file_type
            /\ docs'[d].file_size = docs[d].file_size
            /\ docs'[d].uploaded_at = docs[d].uploaded_at
            /\ docs'[d] # docs[d]
                => (last'.op = "analyze_document" /\ last'.id = d)
        /\ \A d \in DOMAIN docs' \ DOMAIN docs : d > nextId ]_vars

\* an analysis has just completed a pending row, next to another row
C11_Witness ==
    /\ last.op = "analyze_document"
    /\ last.result = "ok"
    /\ last.prev = NULL
    /\ docs[last.id].status = "complete"
    /\ docs[last.id].analysis # NULL
    /\ Cardinality(DOMAIN docs) = 2

\* C12: with calls interleaving and all of them given the same racer, file
\* name and content, the write of an upload_document call makes a file that
\* was not there, the create of either upload makes a row under an id that
\* was not there and leaves every other row as it was, and no two rows ever
\* name the same file_path.
C12_EveryUploadItsOwn ==
    [][ /\ \A p \in Procs :
            /\ (procs[p].pc = "write" /\ procs'[p].pc = "create")
                => /\ Cardinality(DOMAIN disk') = Cardinality(DOMAIN disk) + 1
                   /\ \A k \in DOMAIN disk : k \in DOMAIN disk' /\ disk'[k] = disk[k]
            /\ (procs[p].pc = "create" /\ procs'[p].pc = "done")
                => /\ procs'[p].result = "ok"
                   /\ procs'[p].id \notin DOMAIN docs
                   /\ DOMAIN docs' = DOMAIN docs \cup {procs'[p].id}
                   /\ \A d \in DOMAIN docs : docs'[d] = docs[d]
                   /\ docs'[procs'[p].id].racer_id = procs[p].racer
                   /\ docs'[procs'[p].id].filename = procs[p].input.filename
        /\ \A d, e \in DOMAIN docs' :
            d # e => docs'[d].file_path # docs'[e].file_path ]_vars

\* two overlapping uploads of the same file for the same racer have each
\* made a row and a file: the thread that finished first got its name last
C12_Witness ==
    \E p, q \in Procs :
        /\ procs[p].op = "upload_document" /\ procs[p].pc = "done"
        /\ procs[q].op = "upload_document" /\ procs[q].pc = "create"
        /\ procs[p].id \in DOMAIN docs
        /\ docs[procs[p].id].file_path.uuid > procs[q].key
        /\ Cardinality(DOMAIN disk) = 2
        /\ procs[q].input = SameFile /\ procs[q].racer = docs[procs[p].id].racer_id
        /\ docs[procs[p].id].filename = SameFile.filename

\* C13 as claimed: of two delete_document calls for the same document that
\* are served at the same time, one returns normally and the other raises
\* NotFoundError (both raise it when the document was not there to begin
\* with), and the row is gone.
C13_OneDeleteWins ==
    \A p, q \in Procs :
        (/\ p # q
         /\ procs[p].op = "delete_document" /\ procs[p].pc = "done"
         /\ procs[q].op = "delete_document" /\ procs[q].pc = "done"
         /\ procs[p].id = procs[q].id)
        => /\ {procs[p].result, procs[q].result} \in
                  {{"ok", "NotFoundError"}, {"NotFoundError"}}
           /\ procs[p].id \notin DOMAIN docs

\* C14: the list a successful get_documents(racer_id) returns holds exactly
\* the rows of that racer, each once and no row of another racer, and a row
\* never comes before one with a later uploaded_at.
C14_ListIsTheRacersRows ==
    (last.op = "get_documents" /\ last.result = "ok")
    => LET documents == last.list
           n         == Len(documents)
       IN  /\ {documents[i] : i \in 1..n} =
                  {d \in DOMAIN docs : docs[d].racer_id = last.racer}
           /\ \A i, j \in 1..n : i # j => documents[i] # documents[j]
           /\ \A i, j \in 1..n :
                  i < j => docs[documents[i]].uploaded_at
                               >= docs[documents[j]].uploaded_at

\* a list of two rows uploaded at different times, the later one first
C14_Witness ==
    /\ last.op = "get_documents" /\ last.result = "ok"
    /\ Len(last.list) = 2
    /\ docs[last.list[1]].uploaded_at > docs[last.list[2]].uploaded_at

C15_CascadeOnDelete ==
    [][ (last'.op = "delete_racer" /\ last'.result = "ok")
        => /\ last'.racer \in racers /\ last'.racer \notin racers'
           /\ \A d \in DOMAIN docs :
                  IF docs[d].racer_id = last'.racer
                  THEN get_document_raises(docs', d)
                  ELSE d \in DOMAIN docs' /\ docs'[d] = docs[d]
           /\ repository_get_by_racer_ordered(docs', last'.racer) = {<< >>}
           /\ DOMAIN docs' \subseteq DOMAIN docs ]_vars

\* a racer with a document has been deleted, another racer's document stays
C15_CascadeHappens ==
    /\ last.op = "delete_racer" /\ last.result = "ok"
    /\ nextId = 2 /\ deleted = {}
    /\ Cardinality(DOMAIN docs) = 1
    /\ \A d \in DOMAIN docs : docs[d].racer_id # last.racer

\* C16 as claimed: every document operation ends normally or with one of the
\* declared kinds of error: ValidationError or NotFoundError (or the route's
\* own 400), FileStorageError or DocumentServiceError.
C16_FailuresAreClassified ==
    last.op \notin {"none", "delete_racer"}
    => last.result \in {"ok", "ValidationError", "NotFoundError", "Http400",
                        "FileStorageError", "DocumentServiceError"}

C18_StoreFailureIsStorageError ==
    (last.op = "upload_document" /\ last.fs \in {"mkdir", "error", "partial"})
    => /\ last.result = "FileStorageError"
       /\ last.bedrock = "none"
       /\ last.db = "none" /\ last.id = 0

\* What does hold of C18: the same, for failures of opening or writing.
C18_WriteFailureIsStorageError ==
    (last.op = "upload_document" /\ last.fs \in {"error", "partial"})
    => /\ last.result = "FileStorageError"
       /\ last.bedrock = "none"
       /\ last.db = "none" /\ last.id = 0

\* C19 as claimed: a create_upload_url call that succeeds has been given the
\* URL and has then created one pending row without analysis under the key
\* of that URL, whose id it returns; a call whose URL could not be issued
\* ends with FileStorageError and creates no row.
C19_UrlThenPendingRow ==
    last.op = "create_upload_url"
    => /\ last.result = "ok"
          => /\ last.s3 = "ok" /\ last.db = "ok"
             /\ last.id = nextId /\ last.id \in DOMAIN docs
             /\ docs[last.id].status = "pending"
             /\ docs[last.id].analysis = NULL
             /\ docs[last.id].file_path = S3Key(nextKey, docs[last.id].file_path.ext)
       /\ last.s3 \in {"ClientError", "BotoCoreError"}
          => /\ last.result = "FileStorageError"
             /\ last.db = "none" /\ last.id = 0

\* What does hold of C19: the same, with the failure to issue the URL
\* ending the call in some error, classified or not.
C19_UrlThenPendingRowOrFailure ==
    last.op = "create_upload_url"
    => /\ last.result = "ok"
          => /\ last.s3 = "ok" /\ last.db = "ok"
             /\ last.id = nextId /\ last.id \in DOMAIN docs
             /\ docs[last.id].status = "pending"
             /\ docs[last.id].analysis = NULL
             /\ docs[last.id].file_path = S3Key(nextKey, docs[last.id].file_path.ext)
       /\ last.s3 \in {"ClientError", "BotoCoreError"}
          => /\ last.result \in {"FileStorageError", "Unhandled"}
             /\ last.db = "none" /\ last.id = 0

\* C20 as claimed: an analyze_document call that has read the object and has
\* its analysis text, and whose repository.update then fails, ends with
\* DocumentServiceError; the object stays in the bucket and the row stays as
\* it was, so that the call can be made again.
C20_UpdateFailureIsRecordError ==
    [][ (last'.op = "analyze_document" /\ last'.s3 = "ok" /\ last'.db = "error")
        => /\ last'.result = "DocumentServiceError"
           /\ s3' = s3
           /\ docs' = docs ]_vars

\* What does hold of C20: the object and the row stay as they were.
C20_UpdateFailureChangesNothing ==
    [][ (last'.op = "analyze_document" /\ last'.s3 = "ok" /\ last'.db = "error")
        => /\ last'.result \in {"DocumentServiceError", "Unhandled"}
           /\ last'.text # "-"
           /\ docs[last'.id].file_path \in DOMAIN s3'
           /\ s3' = s3
           /\ docs' = docs ]_vars

\* C21: get_document, get_document_url, analyze_document and delete_document,
\* called with an id that no row has, end with NotFoundError for that id
\* without calling the bucket, the disk or the analysis, and change no row,
\* no file and no object.
C21_UnknownIdIsNotFound ==
    [][ (/\ last'.op \in {"get_document", "get_document_url",
                          "analyze_document", "delete_document"}
         /\ last'.id \notin DOMAIN docs)
        => /\ last'.result = "NotFoundError"
           /\ last'.s3 = "none" /\ last'.fs = "none"
           /\ last'.bedrock = "none" /\ last'.cleanup = "none"
           /\ docs' = docs /\ disk' = disk /\ s3' = s3 ]_vars

\* analyze_document of a document that was deleted, with another still there
C21_Witness ==
    /\ last.op = "analyze_document" /\ last.result = "NotFoundError"
    /\ last.id \in deleted
    /\ docs # << >>

\* C22 as claimed: with no bucket configured no call goes to the object
\* store, with a bucket configured no call goes to the disk, and every row
\* names a place in the configured store.
C22_OneBackend ==
    /\ uploads_bucket = ""
       => /\ last.s3 = "none"
          /\ \A d \in DOMAIN docs : docs[d].file_path.dir = LOCAL_UPLOAD_DIR
    /\ uploads_bucket # ""
       => /\ last.fs = "none" /\ last.cleanup = "none"
          /\ \A d \in DOMAIN docs : docs[d].file_path.dir = S3_PREFIX

\* What does hold of C22: the rows and the stored content are all in the
\* configured store, and with a bucket configured no call goes to the disk.
C22_StoredInTheConfiguredBackend ==
    /\ uploads_bucket = ""
       => /\ s3 = << >>
          /\ \A d \in DOMAIN docs : docs[d].file_path.dir = LOCAL_UPLOAD_DIR
    /\ uploads_bucket # ""
       => /\ disk = << >>
          /\ last.fs = "none" /\ last.cleanup = "none"
          /\ \A d \in DOMAIN docs : docs[d].file_path.dir = S3_PREFIX

\* C23: with a bucket configured every call of the multipart upload route
\* is answered 400 without the service being called: no file is written, no
\* analysis is asked for and no row is created.
C23_DirectUploadDisabled ==
    [][ (uploads_bucket # "" /\ last'.op = "upload_document")
        => /\ last'.result = "Http400"
           /\ last'.fs = "none" /\ last'.bedrock = "none"
           /\ last'.db = "none" /\ last'.id = 0
           /\ docs' = docs /\ disk' = disk /\ s3' = s3 ]_vars

\* the route refuses while the bucket configuration is in use
C23_Witness ==
    /\ uploads_bucket # ""
    /\ last.op = "upload_document" /\ last.result = "Http400"
    /\ docs # << >> /\ s3 # << >>

\* C24: get_document, get_documents and get_document_url change no row, no
\* file and no object, whether they succeed or fail, and get_document_url
\* asks the object store for a URL on every call that finds its document.
C24_ReadsChangeNothing ==
    [][ last'.op \in {"get_document", "get_documents", "get_document_url"}
        => /\ docs' = docs /\ disk' = disk /\ s3' = s3
           /\ racers' = racers
           /\ last'.fs = "none" /\ last'.cleanup = "none"
           /\ (last'.op = "get_document_url" /\ last'.id \in DOMAIN docs)
              => last'.s3 \in {"ok", "ClientError", "BotoCoreError"}
           /\ last'.op # "get_document_url" => last'.s3 = "none" ]_vars

\* a URL has been issued for a document whose object is in the bucket
C24_Witness ==
    /\ last.op = "get_document_url" /\ last.result = "ok" /\ last.s3 = "ok"
    /\ last.id \in DOMAIN docs
    /\ docs[last.id].file_path \in DOMAIN s3

AnalyzeOrder == <<"idle", "read", "analyse", "update", "done">>

AnalyzePosition(pc) ==
    CHOOSE i \in DOMAIN AnalyzeOrder : AnalyzeOrder[i] = pc

\* C26: every step of an analyze_document call takes it to a later statement
\* and never back, so that one call reads the object at most once, asks for
\* the analysis at most once and updates the row at most once before it
\* ends; it does not touch the bucket, and it writes the row in its update
\* step only.
C26_AnalyzeStraightLine ==
    [][ \A p \in Procs :
          (procs'[p].pc # procs[p].pc
           /\ "analyze_document" \in {procs[p].op, procs'[p].op})
          => /\ IF procs[p].pc = "done"
                THEN procs'[p].pc = "idle" /\ procs'[p].op = "none"
                ELSE /\ procs'[p].op = "analyze_document"
                     /\ AnalyzePosition(procs'[p].pc)
                            > AnalyzePosition(procs[p].pc)
             /\ s3' = s3 /\ disk' = disk
             /\ docs' # docs
                => /\ procs[p].pc = "update" /\ procs'[p].result = "ok"
                   /\ DOMAIN docs' = DOMAIN docs ]_vars

\* a call that went through all its statements and updated the row
C26_Witness ==
    \E p \in Procs :
        /\ procs[p].op = "analyze_document" /\ procs[p].pc = "done"
        /\ procs[p].result = "ok"
        /\ procs[p].id \in DOMAIN docs
        /\ docs[procs[p].id].status = "complete"

\* C27: a row that is complete stays complete and keeps an analysis text in
\* every step that does not delete it, a failing analyze_document included,
\* and a pending row becomes complete only in an analyze_document call on
\* it that succeeds.
C27_StatusMovesForward ==
    [][ \A d \in DOMAIN docs \cap DOMAIN docs' :
          /\ docs[d].status = "complete"
             => /\ docs'[d].status = "complete"
                /\ docs'[d].analysis # NULL
          /\ (docs[d].status = "pending" /\ docs'[d].status # "pending")
             => /\ docs'[d].status = "complete"
                /\ last'.op = "analyze_document" /\ last'.id = d
                /\ last'.result = "ok" ]_vars

\* an analyze_document call has failed on a row that was complete already
C27_Witness ==
    /\ last.op = "analyze_document"
    /\ last.result \in {"FileStorageError", "Unhandled"}
    /\ last.id \in DOMAIN docs
    /\ docs[last.id].status = "complete"
    /\ docs[last.id].analysis # NULL
    /\ docs[last.id].file_path.dir = S3_PREFIX

C29_UploadLeavesNoOrphan ==
    [][ (last'.op = "upload_document" /\ last'.cleanup # "error")
        => \A f \in DOMAIN disk' \ DOMAIN disk :
              \E d \in DOMAIN docs' : docs'[d].file_path = f ]_vars

\* What does hold of C29: the same for the calls whose write did not fail
\* half way.
C29_UploadLeavesNoOrphanUnlessCutShort ==
    [][ (last'.op = "upload_document" /\ last'.cleanup # "error"
         /\ last'.fs # "partial")
        => \A f \in DOMAIN disk' \ DOMAIN disk :
              \E d \in DOMAIN docs' : docs'[d].file_path = f ]_vars

\* every file in the upload directory is the file of exactly one row
EveryFileHasItsRow ==
    \A f \in DOMAIN disk :
        Cardinality({d \in DOMAIN docs : docs[d].file_path = f}) = 1

\* C30 as claimed: in the local-disk configuration a delete_racer that
\* succeeds, like an upload or a delete_document whose storage delete did
\* not fail, keeps every file in the upload directory the file of exactly
\* one row.
C30_NoOrphanFiles ==
    [][ (/\ uploads_bucket = ""
         /\ EveryFileHasItsRow
         /\ \/ last'.op = "delete_racer" /\ last'.result = "ok"
            \/ last'.op = "delete_document" /\ last'.result = "ok"
               /\ last'.fs = "ok"
            \/ last'.op = "upload_document" /\ last'.result = "ok")
        => EveryFileHasItsRow' ]_vars

\* What does hold of C30: the same without delete_racer.
C30_NoOrphanFilesWithoutRacerDelete ==
    [][ (/\ uploads_bucket = ""
         /\ EveryFileHasItsRow
         /\ \/ last'.op = "delete_document" /\ last'.result = "ok"
               /\ last'.fs = "ok"
            \/ last'.op = "upload_document" /\ last'.result = "ok")
        => EveryFileHasItsRow' ]_vars

Next ==
    \/ UploadDocument
    \/ UploadDisabled
    \/ CreateUploadUrl
    \/ ClientPut
    \/ AnalyzeDocument
    \/ GetDocument
    \/ GetDocuments
    \/ GetDocumentUrl
    \/ DeleteDocument
    \/ Tick
    \/ CloseRequest

Spec == Init /\ [][Next]_vars

\* A deployment without the analysis adapter
InitRacer == Init /\ bedrock_service = NULL

NextConc ==
    \E p \in Procs :
        \/ BeginUpload(p)
        \/ WriteFile(p)
        \/ BeginUploadUrl(p)
        \/ CreateRow(p)
        \/ BeginDelete(p)
        \/ DeleteStorage(p)
        \/ DeleteLookup(p)
        \/ DeleteCommit(p)
        \/ Return(p)

SpecConc == InitRacer /\ [][NextConc]_vars

\* A deployment with a bucket and without the analysis adapter
InitAnalyze == InitRacer /\ uploads_bucket # ""

\* The presigned flow and its analysis on the first thread, the deletion on
\* the last thread, served at the same time

NextAnalyze ==
    \/ PutObject
    \/ BeginUploadUrl(Analyst)
    \/ CreateRow(Analyst)
    \/ BeginAnalyze(Analyst)
    \/ ReadObject(Analyst)
    \/ Analyse(Analyst)
    \/ UpdateRow(Analyst)
    \/ Return(Analyst)
    \/ BeginDelete(Deleter)
    \/ DeleteStorage(Deleter)
    \/ DeleteLookup(Deleter)
    \/ DeleteCommit(Deleter)
    \/ Return(Deleter)

SpecAnalyze == InitAnalyze /\ [][NextAnalyze]_vars

\* The document operations next to the deletion of racers
NextRacer ==
    \/ UploadDocument
    \/ CreateUploadUrl
    \/ ClientPut
    \/ AnalyzeDocument
    \/ GetDocuments
    \/ DeleteDocument
    \/ DeleteRacer
    \/ CloseRequest

SpecRacer == InitRacer /\ [][NextRacer]_vars

====
